---- MODULE Spec2Model ----
(***************************************************************************)
(* LEGO catalog scrapers.  Two variants of the router live in the          *)
(* repository:                                                             *)
(*   "capture" - src/unnamed/part_001: intercepts backend responses into   *)
(*               the module-level capturedProducts map, scrolls the        *)
(*               catalog, normalizes what was captured (DOM fallback).     *)
(*   "detail"  - src/lego-scraper/src/routes.ts: scrolls the catalog,      *)
(*               enqueues one PRODUCT request per card and extracts each   *)
(*               product page.                                             *)
(* The crawler that drives the router is src/unnamed/part_000.             *)
(***************************************************************************)
EXTENDS Integers, Sequences, FiniteSets, TLC

\* ------------------------------------------------------------------ bounds

\* Largest item count the page's locator reports in one reading.
MaxDom == 2
\* Largest maxProducts input tried (0 = unbounded).
MaxTarget == 2
\* Retries of the catalog request that are followed (the crawler allows
\* maxRequestRetries of them).
MaxRetries == 1

\* ------------------------------------------------------- program constants

CaptureMaxSameCount == 5
DetailMaxSameCount == 10
maxTotalScrolls == 500
CaptureMaxRequestRetries == 3
DetailMaxRequestRetries == 2
MaxDepth == 10

Max(a, b) == IF a >= b THEN a ELSE b
Min(a, b) == IF a <= b THEN a ELSE b

\* ------------------------------------------------------- untyped JS values
\* The upstream JSON is untyped: a field holds a string, a number or nothing.

Undefined == [t |-> "undefined", v |-> ""]
JsNull == [t |-> "null", v |-> ""]
Str(s) == [t |-> "string", v |-> s]
Num(s) == [t |-> "number", v |-> s]
\* An integer number, with its value kept for arithmetic.
Cents(n) == [t |-> "number", v |-> ToString(n), n |-> n]
Bool(b) == [t |-> "boolean", v |-> IF b THEN "true" ELSE "false"]
\* An array of values.
List(items) == [t |-> "array", v |-> "array", items |-> items]
EmptyObj == [t |-> "object", v |-> "{}"]

\* JS truthiness: '', 0, false, null and undefined are falsy.
Truthy(x) ==
    \/ x.t = "string" /\ x.v # ""
    \/ x.t = "number" /\ x.v # "0"
    \/ x.t = "boolean" /\ x.v = "true"
    \/ x.t \in {"object", "array"}

\* a || b
Or2(a, b) == IF Truthy(a) THEN a ELSE b

\* a ?? b
Nullish(a, b) == IF a.t \in {"undefined", "null"} THEN b ELSE a

\* p.f: a property the object lacks reads undefined.
Prop(p, f) == IF f \in DOMAIN p THEN p[f] ELSE Undefined

\* o?.f, and o.f on a nested object.
Get(o, f) == IF o.t = "object" THEN Prop(o, f) ELSE Undefined

\* An ApiProduct with the properties the identifier, the product test and
\* the URL read, and no other property.
MkRaw(productCode, id, name, price, primaryImage, slug, overrideUrl) ==
    [productCode |-> productCode, id |-> id, name |-> name, price |-> price,
     primaryImage |-> primaryImage, slug |-> slug, overrideUrl |-> overrideUrl]

NoFields ==
    MkRaw(Undefined, Undefined, Undefined, Undefined, Undefined, Undefined, Undefined)

SomePrice == [t |-> "object", v |-> "price"]

\* The raw products that responses of the modelled site carry.  CarFirst and
\* CarLater share the identifier "10300" (one by productCode, one by id);
\* NumericCode carries its product code as a JSON number.
CarFirst ==
    MkRaw(Str("10300"), Undefined, Str("Vintage Car"), SomePrice, Undefined,
          Undefined, Undefined)
CarLater ==
    MkRaw(Undefined, Str("10300"), Str("Vintage Car v2"), SomePrice, Undefined,
          Undefined, Str("https://www.lego.com/product/vintage-car-10300"))
NumericCode ==
    MkRaw(Num("10301"), Undefined, Str("Boat"), Undefined, Undefined,
          Undefined, Undefined)

\* Castle is matched by id, name and image; in the response that carries it,
\* it holds Turret (a product by its productCode) in one of its properties.
Castle ==
    MkRaw(Undefined, Str("10305"), Str("Castle"), Undefined,
          Str("https://www.lego.com/cdn/10305.png"), Str("castle-10305"), Undefined)
Turret ==
    MkRaw(Str("40567"), Undefined, Str("Turret"), Undefined, Undefined,
          Undefined, Undefined)

\* Strings of the universe for which s.startsWith('http') is true.
HttpStrings == {"https://www.lego.com/product/vintage-car-10300"}

\* ----------------------------------------------------------- Field Normalizer

Null == [setNumber |-> Undefined, name |-> "", productUrl |-> <<>>, isNull |-> TRUE]

\* const key = product.productCode || product.id || ''
ProductKey(p) == Or2(Or2(p.productCode, p.id), Str(""))

\* const slug = apiProduct.slug || apiProduct.overrideUrl || setNumber
SlugOf(p) == Or2(Or2(p.slug, p.overrideUrl), ProductKey(p))

\* slug.startsWith('http') throws a TypeError unless slug is a string; the
\* try/catch of parseApiProduct turns the throw into null.
ParseThrows(p) == SlugOf(p).t # "string"

\* The image chain: primaryImage when it is a string (an empty one too),
\* primaryImage.url, baseImgUrl, image.url, else ''.
ImageUrlOf(p) ==
    IF p.primaryImage.t = "string" THEN p.primaryImage
    ELSE IF Truthy(Get(p.primaryImage, "url")) THEN Get(p.primaryImage, "url")
    ELSE IF Truthy(Prop(p, "baseImgUrl")) THEN Prop(p, "baseImgUrl")
    ELSE IF Truthy(Get(Prop(p, "image"), "url")) THEN Get(Prop(p, "image"), "url")
    ELSE Str("")

Digit2(n) == IF n < 10 THEN "0" \o ToString(n) ELSE ToString(n)

\* `$${(centAmount / 100).toFixed(2)}` for a non-negative integer centAmount
ToFixed2(centAmount) ==
    "$" \o ToString(centAmount \div 100) \o "." \o Digit2(centAmount % 100)

\* priceData?.formattedAmount || priceData?.formattedValue ||
\*   (priceData?.centAmount ? `$${(priceData.centAmount / 100).toFixed(2)}` : null)
PriceOf(p) ==
    Or2(Or2(Get(p.price, "formattedAmount"), Get(p.price, "formattedValue")),
        IF Truthy(Get(p.price, "centAmount"))
        THEN Str(ToFixed2(Get(p.price, "centAmount").n))
        ELSE JsNull)

\* listPriceData?.formattedAmount || listPriceData?.formattedValue || null
OriginalPriceOf(p) ==
    Or2(Or2(Get(Prop(p, "listPrice"), "formattedAmount"),
            Get(Prop(p, "listPrice"), "formattedValue")),
        JsNull)

\* const attrs = apiProduct.variant?.attributes || apiProduct.attributes || {}
AttrsOf(p) ==
    Or2(Or2(Get(Prop(p, "variant"), "attributes"), Prop(p, "attributes")), EmptyObj)

\* A plausible slip: !x for x === false.
StrictFalseLoose(x) == ~Truthy(x)

\* x === false
StrictFalse(x) == x.t = "boolean" /\ x.v = "false"

\* The availability block: each later assignment overrides the earlier one,
\* and the variant attributes are read only without an availability object.
AvailabilityOf(p) ==
    LET avail == Prop(p, "availability")
        variantAttrs == Get(Prop(p, "variant"), "attributes")
        flagged(o) == IF StrictFalse(Get(o, "canAddToBag")) THEN "Out of Stock"
                      ELSE "Available"
    IN  IF Truthy(avail)
        THEN IF Get(avail, "deliveryChannel") = Str("coming_soon")
                \/ Truthy(Get(avail, "launchDate"))
             THEN "Coming Soon"
             ELSE flagged(avail)
        ELSE IF Truthy(variantAttrs)
        THEN IF Get(variantAttrs, "deliveryChannel") = Str("coming_soon")
             THEN "Coming Soon"
             ELSE flagged(variantAttrs)
        ELSE "Available"

RECURSIVE TextsOf(_)
\* for (const badge of badges) { if (badge.text) tags.push(badge.text) }
TextsOf(items) ==
    IF items = <<>> THEN <<>>
    ELSE (IF Truthy(Get(Head(items), "text")) THEN <<Get(Head(items), "text").v>>
          ELSE <<>>) \o TextsOf(Tail(items))

\* The tags pushed, in order: featured flags, badge texts, flag texts.
PushedTags(p) ==
    LET featuredFlags == Or2(Get(AttrsOf(p), "featuredFlags"), List(<<>>))
    IN  featuredFlags.items
        \o (IF Truthy(Prop(p, "badges")) THEN TextsOf(p.badges.items) ELSE <<>>)
        \o (IF Truthy(Prop(p, "flags")) THEN TextsOf(p.flags.items) ELSE <<>>)

\* A plausible slip: the tags returned as pushed.
DedupeNone(tags) == tags

RECURSIVE Dedupe(_)
\* [...new Set(tags)]: each value once, at the place of its first occurrence.
Dedupe(tags) ==
    IF tags = <<>> THEN <<>>
    ELSE LET rest == Dedupe(SubSeq(tags, 1, Len(tags) - 1))
             last == tags[Len(tags)]
         IN  IF \E i \in 1..Len(rest) : rest[i] = last THEN rest
             ELSE Append(rest, last)

\* theme = themes[0].name || '' when themes is a non-empty array, else ''
ThemeOf(p) ==
    IF Truthy(Prop(p, "themes")) /\ Len(p.themes.items) > 0
    THEN Or2(Get(p.themes.items[1], "name"), Str(""))
    ELSE Str("")

\* parseApiProduct: null without an identifier or when anything throws.
parseApiProduct(p, baseUrl) ==
    IF ~Truthy(ProductKey(p)) THEN Null
    ELSE IF ParseThrows(p) THEN Null
    ELSE [setNumber |-> ProductKey(p),
          name |-> (Or2(p.name, Str(""))).v,
          theme |-> ThemeOf(p),
          pieces |-> Nullish(Get(AttrsOf(p), "pieceCount"), JsNull),
          minifigures |-> Nullish(Get(AttrsOf(p), "minifigureCount"), JsNull),
          rating |-> Nullish(Get(Get(AttrsOf(p), "rating"), "averageRating"), JsNull),
          reviewCount |-> Nullish(Get(Get(AttrsOf(p), "rating"), "totalReviewCount"), JsNull),
          price |-> PriceOf(p),
          originalPrice |-> OriginalPriceOf(p),
          availability |-> AvailabilityOf(p),
          tags |-> Dedupe(PushedTags(p)),
          imageUrl |-> ImageUrlOf(p),
          productUrl |-> IF SlugOf(p).v \in HttpStrings THEN <<SlugOf(p).v>>
                         ELSE <<baseUrl, "/product/", SlugOf(p).v>>,
          isNull |-> FALSE]

\* ------------------------------------------------------ Response Interceptor
\* A parsed JSON value: null, an array of values, or an object with its own
\* product-ish fields and the values of its other properties (items).

JNull == [k |-> "null", fields |-> NoFields, items |-> <<>>]
Arr(items) == [k |-> "array", fields |-> NoFields, items |-> items]
Obj(p, items) == [k |-> "object", fields |-> p, items |-> items]

\* record.productCode || (record.id && record.name && (record.price || record.primaryImage))
LooksLikeProduct(r) ==
    \/ Truthy(r.productCode)
    \/ Truthy(r.id) /\ Truthy(r.name) /\ (Truthy(r.price) \/ Truthy(r.primaryImage))

RECURSIVE findProductsDeep(_, _)
RECURSIVE findInItemsDeep(_, _)
\* A plausible slip: the search goes on inside a matched product.
findProductsDeep(obj, depth) ==
    IF depth > MaxDepth \/ obj.k = "null" THEN <<>>
    ELSE IF obj.k = "array" THEN findInItemsDeep(obj.items, depth + 1)
    ELSE IF LooksLikeProduct(obj.fields)
    THEN <<obj.fields>> \o findInItemsDeep(obj.items, depth + 1)
    ELSE findInItemsDeep(obj.items, depth + 1)
findInItemsDeep(items, depth) ==
    IF items = <<>> THEN <<>>
    ELSE findProductsDeep(Head(items), depth) \o findInItemsDeep(Tail(items), depth)

RECURSIVE findProducts(_, _)
RECURSIVE findInItems(_, _)
\* findProducts(obj, depth): the products pushed while visiting obj.
findProducts(obj, depth) ==
    IF depth > MaxDepth \/ obj.k = "null" THEN <<>>
    ELSE IF obj.k = "array" THEN findInItems(obj.items, depth + 1)
    ELSE IF LooksLikeProduct(obj.fields) THEN <<obj.fields>>
    ELSE findInItems(obj.items, depth + 1)
findInItems(items, depth) ==
    IF items = <<>> THEN <<>>
    ELSE findProducts(Head(items), depth) \o findInItems(Tail(items), depth)

processApiResponse(data) == findProducts(data, 0)

\* capturedProducts is a Map: entries in insertion order, one per key.
MapHas(m, key) == \E i \in 1..Len(m) : m[i].key = key
MapSet(m, key, value) ==
    IF MapHas(m, key)
    THEN [i \in 1..Len(m) |-> IF m[i].key = key THEN [key |-> key, value |-> value] ELSE m[i]]
    ELSE Append(m, [key |-> key, value |-> value])
MapValues(m) == [i \in 1..Len(m) |-> m[i].value]

\* A plausible slip: the has() test is dropped and a later capture overwrites.
StoreProductOverwrite(m, product) ==
    IF Truthy(ProductKey(product)) THEN MapSet(m, ProductKey(product), product) ELSE m

\* if (key && !capturedProducts.has(key)) capturedProducts.set(key, product)
StoreProduct(m, product) ==
    IF Truthy(ProductKey(product)) /\ ~MapHas(m, ProductKey(product))
    THEN MapSet(m, ProductKey(product), product)
    ELSE m

RECURSIVE StoreAll(_, _)
\* for (const product of products) { ... }
StoreAll(m, products) ==
    IF products = <<>> THEN m
    ELSE StoreAll(StoreProduct(m, Head(products)), Tail(products))

\* A response as the listener sees it: which of the URL markers its URL
\* contains ("other": none), its content-type, and its body (wellFormed: FALSE
\* when JSON.parse throws).
MkResponse(url, contentType, wellFormed, data) ==
    [url |-> url, contentType |-> contentType, wellFormed |-> wellFormed, data |-> data]

RespList ==
    MkResponse("/api/", "application/json", TRUE,
               Obj(NoFields, <<Arr(<<Obj(CarFirst, <<>>), Obj(NumericCode, <<>>)>>)>>))
RespLater ==
    MkResponse("/graphql", "application/json", TRUE,
               Arr(<<Obj(CarLater, <<>>), Obj(Castle, <<Arr(<<Obj(Turret, <<>>)>>)>>)>>))
RespNum == MkResponse("search", "application/json", TRUE, Obj(NumericCode, <<>>))
RespHtml == MkResponse("product", "text/html", FALSE, JNull)
RespBad == MkResponse("catalog", "application/json", FALSE, JNull)
RespOther == MkResponse("other", "application/json", TRUE, Arr(<<Obj(CarFirst, <<>>)>>))
NoResponse == MkResponse("", "", FALSE, JNull)

Responses == {RespList, RespLater, RespNum, RespHtml, RespBad, RespOther}

UrlMatches(r) == r.url \in {"/api/", "/graphql", "product", "catalog", "search"}
IsJson(r) == r.contentType = "application/json"

\* A plausible slip: JSON.parse outside the try block.
ParseErrorPropagatesUncaught == TRUE

\* catch { /* Ignore parsing errors for non-JSON responses */ }
ParseErrorPropagates == FALSE

\* ------------------------------------------------- PRODUCT page extraction
\* What the PRODUCT handler of routes.ts reads from a rendered product page.
\* Texts are lower-cased word sequences; a regular-expression match is the
\* matched string, '' when there is none.

\* text.includes(phrase)
Includes(text, phrase) ==
    \E i \in 1..(Len(text) - Len(phrase) + 1) :
        SubSeq(text, i, i + Len(phrase) - 1) = phrase

\* parseFloat(price.replace(/[$,]/g, '')), in cents, of the price strings used.
ParsePrice(price) ==
    CASE price = "$49.99" -> 4999
      [] price = "$59.99" -> 5999
      [] price = "$0.00" -> 0

\* parseInt(discountMatch[1], 10) of the digit strings used.
ParseInt(digits) ==
    CASE digits = "0" -> 0
      [] digits = "17" -> 17

\* Math.round(((retail - sale) / retail) * 100)
DiscountOf(retail, sale) == (200 * (retail - sale) + retail) \div (2 * retail)

\* The if/else-if chain that picks retailPrice, salePrice and isOnSale
\* ('' stands for null here).
PickPrices(page) ==
    LET saleM == page.salePriceMatch
        origM == page.originalPriceMatch
        allPrices == page.allPrices
    IN  IF origM # "" /\ saleM # ""
        THEN [retailPrice |-> origM, salePrice |-> saleM, isOnSale |-> TRUE]
        ELSE IF Len(allPrices) >= 2
        THEN LET price1 == ParsePrice(allPrices[1])
                 price2 == ParsePrice(allPrices[2])
             IN  IF price1 < price2
                 THEN [retailPrice |-> allPrices[2], salePrice |-> allPrices[1],
                       isOnSale |-> TRUE]
                 ELSE IF price2 < price1
                 THEN [retailPrice |-> allPrices[1], salePrice |-> allPrices[2],
                       isOnSale |-> TRUE]
                 ELSE [retailPrice |-> allPrices[1], salePrice |-> "",
                       isOnSale |-> FALSE]
        ELSE IF saleM # ""
        THEN [retailPrice |-> origM, salePrice |-> saleM, isOnSale |-> origM # ""]
        ELSE IF Len(allPrices) = 1
        THEN [retailPrice |-> allPrices[1], salePrice |-> "", isOnSale |-> FALSE]
        ELSE [retailPrice |-> "", salePrice |-> "", isOnSale |-> FALSE]

\* The discount step: computed from the two prices when on sale with both,
\* else read from the discount text, which then also decides isOnSale.
PriceInfo(page) ==
    LET picked == PickPrices(page)
        priced(discount, onSale) ==
            [retailPrice |-> IF picked.retailPrice = "" THEN JsNull
                             ELSE Str(picked.retailPrice),
             salePrice |-> IF picked.salePrice = "" THEN JsNull
                           ELSE Str(picked.salePrice),
             isOnSale |-> onSale,
             discountPercentage |-> discount]
    IN  IF picked.isOnSale /\ picked.retailPrice # "" /\ picked.salePrice # ""
        THEN LET retail == ParsePrice(picked.retailPrice)
                 sale == ParsePrice(picked.salePrice)
             IN  IF retail > 0 /\ sale < retail
                 THEN priced(Cents(DiscountOf(retail, sale)), TRUE)
                 ELSE priced(JsNull, TRUE)
        ELSE IF page.discountMatch # ""
        THEN priced(Cents(ParseInt(page.discountMatch)),
                    ParseInt(page.discountMatch) > 0)
        ELSE priced(JsNull, picked.isOnSale)

\* A plausible slip: the longer phrase tested before the shorter one.
ContentAvailabilityLongestFirst(content) ==
    IF Includes(content, <<"temporarily", "out", "of", "stock">>)
    THEN "Temporarily Out of Stock"
    ELSE IF Includes(content, <<"sold", "out">>) \/ Includes(content, <<"out", "of", "stock">>)
    THEN "Out of Stock"
    ELSE IF Includes(content, <<"coming", "soon">>) THEN "Coming Soon"
    ELSE IF Includes(content, <<"backorder">>) THEN "Backorder"
    ELSE "Available"

\* The chain run on the page content when the add-to-bag button is hidden or
\* disabled.
ContentAvailability(content) ==
    IF Includes(content, <<"sold", "out">>) \/ Includes(content, <<"out", "of", "stock">>)
    THEN "Out of Stock"
    ELSE IF Includes(content, <<"coming", "soon">>) THEN "Coming Soon"
    ELSE IF Includes(content, <<"temporarily", "out", "of", "stock">>)
    THEN "Temporarily Out of Stock"
    ELSE IF Includes(content, <<"backorder">>) THEN "Backorder"
    ELSE "Available"

\* The chain run on the availability label when it has text.
LabelAvailability(availability, availLower) ==
    IF availLower = <<>> THEN availability
    ELSE IF Includes(availLower, <<"sold", "out">>)
            \/ Includes(availLower, <<"out", "of", "stock">>)
    THEN "Out of Stock"
    ELSE IF Includes(availLower, <<"coming", "soon">>) THEN "Coming Soon"
    ELSE IF Includes(availLower, <<"back", "order">>) \/ Includes(availLower, <<"backorder">>)
    THEN "Backorder"
    ELSE IF Includes(availLower, <<"available">>) THEN "Available"
    ELSE availability

PageAvailability(page) ==
    LabelAvailability(
        IF ~page.isAddToBagVisible \/ page.isAddToBagDisabled
        THEN ContentAvailability(page.pageContentLower)
        ELSE "Available",
        page.availLower)

\* tag.toLowerCase(), as words, of the badge texts and tags used (all of
\* them shorter than 30 characters).
LowerWords(tag) ==
    CASE tag = "New" -> <<"new">>
      [] tag = "Sale" -> <<"sale">>
      [] tag = "SALE" -> <<"sale">>
      [] tag = "Exclusive" -> <<"exclusive">>
      [] tag = "Retiring Soon" -> <<"retiring", "soon">>
      [] tag = "Hard to Find" -> <<"hard", "to", "find">>
      [] tag = "Insider Exclusive" -> <<"insider", "exclusive">>
      [] tag = "Free Gift" -> <<"free", "gift">>

validTagPatterns ==
    {<<"retiring", "soon">>, <<"exclusive">>, <<"new">>, <<"hard", "to", "find">>,
     <<"sale">>, <<"limited", "edition">>, <<"insider">>, <<"vip">>,
     <<"coming", "soon">>, <<"back", "in", "stock">>, <<"bestseller">>,
     <<"best", "seller">>}

\* tags.some(t => t.toLowerCase().includes(phrase))
SomeTagIncludes(tags, phrase) ==
    \E i \in 1..Len(tags) : Includes(LowerWords(tags[i]), phrase)

\* tags.includes(tag)
HasTag(tags, tag) == \E i \in 1..Len(tags) : tags[i] = tag

RECURSIVE BadgeTags(_, _)
\* The badge loop: a trimmed text is pushed when it is not empty, matches a
\* valid pattern and is not in tags yet.
BadgeTags(badgeTexts, tags) ==
    IF badgeTexts = <<>> THEN tags
    ELSE LET trimmed == Head(badgeTexts)
         IN  BadgeTags(Tail(badgeTexts),
                 IF /\ trimmed # ""
                    /\ \E pat \in validTagPatterns : Includes(LowerWords(trimmed), pat)
                    /\ ~HasTag(tags, trimmed)
                 THEN Append(tags, trimmed)
                 ELSE tags)

\* tags after one of the page-content checks
PushUnless(tags, condition, tag) == IF condition THEN Append(tags, tag) ELSE tags

\* The tags pushed by the PRODUCT handler before the final new Set(tags).
PageTags(page, isOnSale) ==
    LET content == page.pageContentLower
        t1 == BadgeTags(page.badgeTexts, <<>>)
        t2 == PushUnless(t1, /\ Includes(content, <<"retiring", "soon">>)
                             /\ ~SomeTagIncludes(t1, <<"retiring">>),
                         "Retiring Soon")
        t3 == PushUnless(t2, /\ \/ Includes(content, <<"lego", "exclusive">>)
                                \/ Includes(content, <<"lego®", "exclusive">>)
                             /\ ~SomeTagIncludes(t2, <<"exclusive">>),
                         "Exclusive")
        t4 == PushUnless(t3, /\ Includes(content, <<"hard", "to", "find">>)
                             /\ ~SomeTagIncludes(t3, <<"hard", "to", "find">>),
                         "Hard to Find")
        t5 == PushUnless(t4, /\ \/ Includes(content, <<"insider", "exclusive">>)
                                \/ Includes(content, <<"vip", "exclusive">>)
                             /\ ~SomeTagIncludes(t4, <<"insider">>)
                             /\ ~SomeTagIncludes(t4, <<"vip">>),
                         "Insider Exclusive")
        t6 == PushUnless(t5, /\ Includes(content, <<">new<">>)
                             /\ ~HasTag(t5, "New"),
                         "New")
    IN  PushUnless(t6, /\ isOnSale
                       /\ ~\E i \in 1..Len(t6) : LowerWords(t6[i]) = <<"sale">>,
                   "Sale")

\* The record the PRODUCT handler pushes for a page whose name appeared.
ExtractProduct(page) ==
    LET prices == PriceInfo(page)
        number(digits) == IF digits = "" THEN JsNull ELSE Num(digits)
    IN  [setNumber |-> Str(page.urlDigits),
         name |-> page.nameText,
         theme |-> Str(IF Len(page.breadcrumbs) > 1
                       THEN page.breadcrumbs[Len(page.breadcrumbs) - 1]
                       ELSE ""),
         pieces |-> number(page.piecesMatch),
         minifigures |-> number(page.minifigsMatch),
         ageRange |-> IF page.ageText = "" THEN JsNull ELSE Str(page.ageText),
         rating |-> number(page.ratingMatch),
         reviewCount |-> number(page.reviewMatch),
         retailPrice |-> prices.retailPrice,
         salePrice |-> prices.salePrice,
         isOnSale |-> prices.isOnSale,
         discountPercentage |-> prices.discountPercentage,
         availability |-> PageAvailability(page),
         tags |-> Dedupe(PageTags(page, prices.isOnSale)),
         imageUrl |-> Str(IF page.imageSrc # "" THEN page.imageSrc ELSE page.imageDataSrc),
         productUrl |-> <<page.url>>,
         isNull |-> FALSE]

\* ------------------------------------------------------ extraction inputs

PriceObj(formattedAmount, formattedValue, centAmount) ==
    [t |-> "object", v |-> "price", formattedAmount |-> formattedAmount,
     formattedValue |-> formattedValue, centAmount |-> centAmount]
AvailObj(canAddToBag, deliveryChannel, launchDate) ==
    [t |-> "object", v |-> "availability", canAddToBag |-> canAddToBag,
     deliveryChannel |-> deliveryChannel, launchDate |-> launchDate]
Attrs(pieceCount, featuredFlags, deliveryChannel, canAddToBag) ==
    [t |-> "object", v |-> "attributes", pieceCount |-> pieceCount,
     featuredFlags |-> featuredFlags, deliveryChannel |-> deliveryChannel,
     canAddToBag |-> canAddToBag]
Variant(attributes) == [t |-> "object", v |-> "variant", attributes |-> attributes]
Badge(text) == [t |-> "object", v |-> "badge", text |-> Str(text)]
Theme(name) == [t |-> "object", v |-> "theme", name |-> Str(name)]

CodeInputs == {Str("10300"), Undefined, Num("10301")}
CentInputs == {0, 5, 100, 24999}
PriceInputs ==
    {Undefined,
     PriceObj(Str("$249.99"), Undefined, Cents(24999)),
     PriceObj(Undefined, Str("249.99"), Undefined)}
    \cup {PriceObj(Undefined, Undefined, Cents(c)) : c \in CentInputs}
ListPriceInputs == {Undefined, PriceObj(Str("$329.99"), Undefined, Undefined)}
AvailInputs ==
    {Undefined,
     AvailObj(Undefined, Undefined, Undefined),
     AvailObj(Bool(TRUE), Undefined, Undefined),
     AvailObj(Bool(FALSE), Undefined, Undefined),
     AvailObj(Bool(FALSE), Str("coming_soon"), Undefined),
     AvailObj(Bool(FALSE), Undefined, Str("2026-03-01"))}
VariantInputs ==
    {Undefined,
     Variant(Attrs(Cents(1458), List(<<"New", "Exclusive", "New">>), Undefined, Undefined)),
     Variant(Attrs(Undefined, Undefined, Undefined, Bool(FALSE))),
     Variant(Attrs(Undefined, Undefined, Str("coming_soon"), Bool(FALSE)))}
BadgeInputs ==
    {Undefined, List(<<Badge("New"), Badge("Sale"), Badge(""), Badge("New")>>)}
FlagInputs == {Undefined, List(<<Badge("Sale"), Badge("sale")>>)}
ImageInputs == {Undefined, Str("https://www.lego.com/cdn/10300.png")}
ThemeInputs == {Undefined, List(<<Theme("Icons")>>)}

\* An ApiProduct with the other properties parseApiProduct reads as well.
MkApiProduct(productCode, price, primaryImage, listPrice, availability, variant, badges, flags, themes) ==
    [productCode |-> productCode, id |-> Undefined, name |-> Str("Vintage Car"),
     price |-> price, primaryImage |-> primaryImage, slug |-> Undefined,
     overrideUrl |-> Undefined, baseImgUrl |-> Undefined, image |-> Undefined,
     listPrice |-> listPrice, variant |-> variant, attributes |-> Undefined,
     availability |-> availability, themes |-> themes, badges |-> badges,
     flags |-> flags]

PriceMatches == {"", "$49.99", "$59.99"}
AllPricesInputs ==
    {<<>>, <<"$49.99">>, <<"$49.99", "$59.99">>, <<"$59.99", "$49.99">>,
     <<"$49.99", "$49.99">>}
DiscountMatches == {"", "0", "17"}
ContentInputs ==
    {<<"add", "to", "bag">>,
     <<"temporarily", "out", "of", "stock">>,
     <<"coming", "soon">>,
     <<"backorder">>,
     <<"sold", "out", "retiring", "soon">>,
     <<"lego", "exclusive", ">new<", "hard", "to", "find">>}
LabelInputs ==
    {<<>>, <<"temporarily", "out", "of", "stock">>, <<"back", "order">>,
     <<"available", "now">>}
BadgeTextInputs ==
    {<<>>, <<"New", "New", "Free Gift">>, <<"Sale", "SALE", "Exclusive">>}

\* A product page: what each locator and match of the handler finds on it;
\* found says whether the page carries its number, breadcrumbs, counts and image.
MkPage(found, saleM, origM, allPrices, discountM, visible, disabled, content, lbl, badgeTexts) ==
    [url |-> IF found THEN "https://www.lego.com/en-us/product/vintage-car-10300"
             ELSE "https://www.lego.com/en-us/product/gift-card",
     urlDigits |-> IF found THEN "10300" ELSE "",
     nameText |-> "Vintage Car",
     breadcrumbs |-> IF found THEN <<"Home", "Icons", "Vintage Car">> ELSE <<>>,
     salePriceMatch |-> saleM, originalPriceMatch |-> origM,
     allPrices |-> allPrices, discountMatch |-> discountM,
     piecesMatch |-> IF found THEN "1458" ELSE "",
     minifigsMatch |-> "",
     ageText |-> IF found THEN "18+" ELSE "",
     ratingMatch |-> IF found THEN "4.8" ELSE "",
     reviewMatch |-> IF found THEN "212" ELSE "",
     isAddToBagVisible |-> visible, isAddToBagDisabled |-> disabled,
     pageContentLower |-> content, availLower |-> lbl,
     badgeTexts |-> badgeTexts,
     imageSrc |-> IF found THEN "https://www.lego.com/cdn/10300.png" ELSE "",
     imageDataSrc |-> ""]

\* --------------------------------------------------------------- the state

VARIABLES
    variant,               \* "capture" (part_001) or "detail" (routes.ts)
    maxProducts,           \* request.userData.maxProducts
    capturedProducts,      \* the module-level Map of part_001
    lastResponse,          \* the response the listener handled last in this visit
    unhandledRejection,    \* an error escaped the response listener
    label,                 \* label of the request being handled
    hpc,                   \* position of the request handler
    outcome,               \* how the last handler run ended
    retryCount,            \* retries of the catalog request so far
    catalogPending,        \* the catalog request waits in the queue
    productQueue,          \* PRODUCT requests waiting in the queue
    previousProductCount,
    sameCountIterations,
    totalScrolls,
    currentProductCount,
    domProductCount,
    clickedButton,         \* a load-more control was activated in the last iteration
    exitReason,            \* which exit the controller's loop took
    emitted,               \* records this visit pushed to the dataset
    enqueued,              \* PRODUCT requests this visit added
    screenshots,           \* screenshots this visit stored
    htmlBlobs,             \* markup blobs this visit stored
    domCalled,             \* extractProductsFromDom ran in this visit
    noIncreaseRun,         \* consecutive iterations, no activation, count <= previous
    unchangedRun,          \* consecutive iterations, no activation, count = previous
    fpc,                   \* field extraction looked at on its own: its position
    apiProduct,            \* the ApiProduct handed to parseApiProduct
    normalized,            \* what parseApiProduct returned for it
    page,                  \* the product page the PRODUCT handler reads
    pushedProduct          \* the record the PRODUCT handler pushed for it

netVars == <<capturedProducts, lastResponse, unhandledRejection>>
crawlVars == <<label, outcome, retryCount, catalogPending, productQueue>>
ctlVars == <<previousProductCount, sameCountIterations, totalScrolls,
             currentProductCount, domProductCount, clickedButton, exitReason,
             noIncreaseRun, unchangedRun>>
outVars == <<emitted, enqueued, screenshots, htmlBlobs, domCalled>>
recVars == <<fpc, apiProduct, normalized, page, pushedProduct>>
runVars == <<variant, maxProducts, hpc, netVars, crawlVars, ctlVars, outVars>>
vars == <<runVars, recVars>>

\* --------------------------------------------- Scroll/Pagination Controller

\* const maxSameCountIterations = 5 (part_001) / 10 (routes.ts)
maxSameCountIterations(v) ==
    IF v = "capture" THEN CaptureMaxSameCount ELSE DetailMaxSameCount

\* maxRequestRetries of the crawler that runs each router
maxRequestRetries(v) ==
    IF v = "capture" THEN CaptureMaxRequestRetries ELSE DetailMaxRequestRetries

\* part_001: Math.max(domProductCount, capturedProducts.size); routes.ts has
\* no capture store and counts the DOM items alone.
ObservedCount(v, dom, size) == IF v = "capture" THEN Max(dom, size) ELSE dom

\* A plausible slip: > for >=.
TargetReachedStrict(maxP, cur) == maxP > 0 /\ cur > maxP

\* if (maxProducts > 0 && currentProductCount >= maxProducts) break
TargetReached(maxP, cur) == maxP > 0 /\ cur >= maxP

\* The stall counter after one iteration.  routes.ts resets it when a button
\* was clicked; part_001 has no clickedButton and looks at the count alone.
NextSameCount(v, clicked, cur, prev, same) ==
    IF v = "detail" /\ clicked THEN 0
    ELSE IF cur = prev THEN same + 1
    ELSE 0

\* A plausible slip: <= for < in the loop test.
LoopContinuesOffByOne(v, same, total) ==
    /\ same <= maxSameCountIterations(v)
    /\ (v = "detail" => total < maxTotalScrolls)

\* while (sameCountIterations < maxSameCountIterations [&& totalScrolls < maxTotalScrolls])
LoopContinues(v, same, total) ==
    /\ same < maxSameCountIterations(v)
    /\ (v = "detail" => total < maxTotalScrolls)

\* Which condition of the loop test failed.
ExitReasonOf(v, same) ==
    IF same >= maxSameCountIterations(v) THEN "stalled" ELSE "ceiling"

\* ---------------------------------------------------------- catalog results

BaseUrl == "https://www.lego.com"

RECURSIVE ParseLoop(_, _, _)
\* for (const apiProduct of capturedProducts.values()) { push unless null;
\*   if (maxProducts > 0 && products.length >= maxProducts) break }
ParseLoop(values, maxP, products) ==
    IF values = <<>> THEN products
    ELSE LET product == parseApiProduct(Head(values), BaseUrl)
             pushed == IF product.isNull THEN products ELSE Append(products, product)
         IN  IF maxP > 0 /\ Len(pushed) >= maxP THEN pushed
             ELSE ParseLoop(Tail(values), maxP, pushed)

\* A plausible slip: falling back on the store's size.
UseDomFallbackOnStoreSize(products, store) == Len(store) = 0

\* if (products.length === 0) products = await extractProductsFromDom(...)
UseDomFallback(products, store) == Len(products) = 0

\* A plausible slip: every card found is processed.
CardLimitUncapped(maxP, count) == count

\* const limit = maxProducts > 0 ? Math.min(maxProducts, count) : count
CardLimit(maxP, count) == IF maxP > 0 THEN Min(maxP, count) ELSE count

\* A record read from one product card of the rendered catalog.
DomCard ==
    [setNumber |-> Str("77123"), name |-> "Card",
     productUrl |-> <<BaseUrl, "/en-us/product/lego-icons-10300-vintage-car-77123">>,
     isNull |-> FALSE]

\* The record the PRODUCT handler builds from a loaded product page.
ProductRecord ==
    [setNumber |-> Str("10300"), name |-> "Vintage Car",
     productUrl |-> <<BaseUrl, "/en-us/product/vintage-car-10300">>,
     isNull |-> FALSE]

\* ------------------------------------------------------------------ actions

CtlInit ==
    /\ previousProductCount = 0
    /\ sameCountIterations = 0
    /\ totalScrolls = 0
    /\ currentProductCount = 0
    /\ domProductCount = 0
    /\ clickedButton = FALSE
    /\ exitReason = "none"
    /\ noIncreaseRun = 0
    /\ unchangedRun = 0

OutInit ==
    /\ emitted = <<>>
    /\ enqueued = 0
    /\ screenshots = 0
    /\ htmlBlobs = 0
    /\ domCalled = FALSE

\* crawler.run([{ url: startUrl, label: 'CATALOG', userData: { maxProducts } }])
Init ==
    /\ variant \in {"capture", "detail"}
    /\ maxProducts \in 0..MaxTarget
    /\ capturedProducts = <<>>
    /\ lastResponse = NoResponse
    /\ unhandledRejection = FALSE
    /\ label = "NONE"
    /\ hpc = "idle"
    /\ outcome = "none"
    /\ retryCount = 0
    /\ catalogPending = TRUE
    /\ productQueue = 0
    /\ CtlInit
    /\ OutInit
    /\ fpc = "idle"
    /\ apiProduct = Undefined
    /\ normalized = Null
    /\ page = Undefined
    /\ pushedProduct = Null

\* The controller's locals as a fresh call (or a return) leaves them.
CtlReset ==
    /\ previousProductCount' = 0
    /\ sameCountIterations' = 0
    /\ totalScrolls' = 0
    /\ currentProductCount' = 0
    /\ domProductCount' = 0
    /\ clickedButton' = FALSE
    /\ exitReason' = "none"
    /\ noIncreaseRun' = 0
    /\ unchangedRun' = 0

OutReset ==
    /\ emitted' = <<>>
    /\ enqueued' = 0
    /\ screenshots' = 0
    /\ htmlBlobs' = 0
    /\ domCalled' = FALSE

PageOpen == hpc \in {"load", "read", "scroll", "after"}

\* The crawler hands the catalog request to the CATALOG handler on a new
\* page.  part_001 attaches its response listener first; the module-level
\* capturedProducts is whatever earlier handler runs left in it.
StartCatalog ==
    /\ hpc \in {"idle", "done"}
    /\ catalogPending
    /\ catalogPending' = FALSE
    /\ label' = "CATALOG"
    /\ hpc' = "load"
    /\ outcome' = "none"
    /\ lastResponse' = NoResponse
    /\ CtlReset
    /\ OutReset
    /\ UNCHANGED <<variant, maxProducts, capturedProducts, unhandledRejection,
                   retryCount, productQueue>>
    /\ UNCHANGED recVars

\* The crawler hands one enqueued PRODUCT request to the PRODUCT handler.
StartProduct ==
    /\ hpc \in {"idle", "done"}
    /\ ~catalogPending
    /\ productQueue > 0
    /\ productQueue' = productQueue - 1
    /\ label' = "PRODUCT"
    /\ hpc' = "load"
    /\ outcome' = "none"
    /\ lastResponse' = NoResponse
    /\ CtlReset
    /\ OutReset
    /\ UNCHANGED <<variant, maxProducts, capturedProducts, unhandledRejection,
                   retryCount, catalogPending>>
    /\ UNCHANGED recVars

\* page.on('response', ...) of part_001, run for one response r.
InterceptResponse(r) ==
    /\ variant = "capture"
    /\ label = "CATALOG"
    /\ PageOpen
    /\ lastResponse' = r
    /\ IF UrlMatches(r) /\ IsJson(r)
       THEN IF r.wellFormed
            THEN /\ capturedProducts' = StoreAll(capturedProducts, processApiResponse(r.data))
                 /\ UNCHANGED unhandledRejection
            ELSE /\ unhandledRejection' = (unhandledRejection \/ ParseErrorPropagates)
                 /\ UNCHANGED capturedProducts
       ELSE UNCHANGED <<capturedProducts, unhandledRejection>>
    /\ UNCHANGED <<variant, maxProducts, hpc, crawlVars, ctlVars, outVars>>
    /\ UNCHANGED recVars

\* part_001: waitForLoadState('networkidle').catch(() => {}), a fixed wait,
\* then scrollToLoadAllProducts starts: the loop test passes.
CaptureLoaded ==
    /\ variant = "capture"
    /\ label = "CATALOG"
    /\ hpc = "load"
    /\ hpc' = "read"
    /\ UNCHANGED <<variant, maxProducts, netVars, crawlVars, ctlVars, outVars>>
    /\ UNCHANGED recVars

\* routes.ts CATALOG: waitForSelector('[data-test="product-item"]') resolves
\* and scrollToLoadAllProducts starts: the loop test passes, totalScrolls++.
CatalogReady ==
    /\ variant = "detail"
    /\ label = "CATALOG"
    /\ hpc = "load"
    /\ hpc' = "read"
    /\ totalScrolls' = 1
    /\ UNCHANGED <<variant, maxProducts, netVars, crawlVars, outVars,
                   previousProductCount, sameCountIterations, currentProductCount,
                   domProductCount, clickedButton, exitReason, noIncreaseRun,
                   unchangedRun>>
    /\ UNCHANGED recVars

\* routes.ts CATALOG: waitForSelector times out: screenshot, return.
CatalogTimeout ==
    /\ variant = "detail"
    /\ label = "CATALOG"
    /\ hpc = "load"
    /\ screenshots' = screenshots + 1
    /\ hpc' = "done"
    /\ outcome' = "timeout"
    /\ UNCHANGED <<variant, maxProducts, netVars, ctlVars, label, retryCount,
                   catalogPending, productQueue, emitted, enqueued, htmlBlobs,
                   domCalled>>
    /\ UNCHANGED recVars

\* One pass from the count reading to the target test.
CtlRead ==
    /\ hpc = "read"
    /\ \E dom \in 0..MaxDom :
        LET cur == ObservedCount(variant, dom, Len(capturedProducts))
        IN  /\ domProductCount' = dom
            /\ currentProductCount' = cur
            /\ clickedButton' = FALSE
            /\ IF TargetReached(maxProducts, cur)
               THEN /\ hpc' = "after"
                    /\ exitReason' = "target"
                    /\ previousProductCount' = 0
                    /\ sameCountIterations' = 0
                    /\ totalScrolls' = 0
                    /\ noIncreaseRun' = 0
                    /\ unchangedRun' = 0
               ELSE /\ hpc' = "scroll"
                    /\ UNCHANGED <<exitReason, previousProductCount, sameCountIterations,
                                   totalScrolls, noIncreaseRun, unchangedRun>>
    /\ UNCHANGED <<variant, maxProducts, netVars, crawlVars, outVars>>
    /\ UNCHANGED recVars

\* The rest of the iteration: scroll to the bottom, wait, click the first
\* visible load-more control (clicked), update the stall counter, and test the
\* loop condition again.
CtlScroll ==
    /\ hpc = "scroll"
    /\ \E clicked \in BOOLEAN :
        LET same == NextSameCount(variant, clicked, currentProductCount,
                                  previousProductCount, sameCountIterations)
            cap == maxSameCountIterations(variant)
        IN  /\ clickedButton' = clicked
            /\ currentProductCount' = 0
            /\ domProductCount' = 0
            /\ IF LoopContinues(variant, same, totalScrolls)
               THEN /\ hpc' = "read"
                    /\ sameCountIterations' = same
                    /\ previousProductCount' = currentProductCount
                    /\ totalScrolls' = IF variant = "detail" THEN totalScrolls + 1
                                       ELSE totalScrolls
                    /\ noIncreaseRun' =
                         IF ~clicked /\ currentProductCount <= previousProductCount
                         THEN Min(noIncreaseRun + 1, cap) ELSE 0
                    /\ unchangedRun' =
                         IF ~clicked /\ currentProductCount = previousProductCount
                         THEN Min(unchangedRun + 1, cap) ELSE 0
                    /\ UNCHANGED exitReason
               ELSE /\ hpc' = "after"
                    /\ exitReason' = ExitReasonOf(variant, same)
                    /\ sameCountIterations' = 0
                    /\ previousProductCount' = 0
                    /\ totalScrolls' = 0
                    /\ noIncreaseRun' = 0
                    /\ unchangedRun' = 0
    /\ UNCHANGED <<variant, maxProducts, netVars, crawlVars, outVars>>
    /\ UNCHANGED recVars

\* part_001 CATALOG after the controller: normalize what was captured, fall
\* back to the DOM (count cards found, n of them kept), then either the debug
\* screenshot and HTML or Dataset.pushData(products).
CaptureExtract ==
    /\ variant = "capture"
    /\ hpc = "after"
    /\ LET parsed == IF Len(capturedProducts) > 0
                     THEN ParseLoop(MapValues(capturedProducts), maxProducts, <<>>)
                     ELSE <<>>
           fallback == UseDomFallback(parsed, capturedProducts)
       IN  \E count \in 0..MaxDom :
           \E n \in 0..CardLimit(maxProducts, count) :
             LET products == IF fallback THEN [i \in 1..n |-> DomCard] ELSE parsed
             IN  /\ (~fallback => count = 0 /\ n = 0)
                 /\ domCalled' = fallback
                 /\ IF Len(products) = 0
                    THEN /\ screenshots' = screenshots + 1
                         /\ htmlBlobs' = htmlBlobs + 1
                         /\ UNCHANGED emitted
                    ELSE /\ emitted' = products
                         /\ UNCHANGED <<screenshots, htmlBlobs>>
    /\ hpc' = "done"
    /\ outcome' = "ok"
    /\ currentProductCount' = 0
    /\ domProductCount' = 0
    /\ UNCHANGED <<variant, maxProducts, netVars, label, retryCount, catalogPending,
                   productQueue, enqueued, previousProductCount, sameCountIterations,
                   totalScrolls, clickedButton, exitReason, noIncreaseRun, unchangedRun>>
    /\ UNCHANGED recVars

\* routes.ts CATALOG after the controller: count cards, keep the first limit,
\* n of them link to a product page; crawler.addRequests of those.
DetailEnqueue ==
    /\ variant = "detail"
    /\ label = "CATALOG"
    /\ hpc = "after"
    /\ \E count \in 0..MaxDom :
       \E n \in 0..CardLimit(maxProducts, count) :
         /\ enqueued' = n
         /\ productQueue' = productQueue + n
    /\ hpc' = "done"
    /\ outcome' = "ok"
    /\ currentProductCount' = 0
    /\ domProductCount' = 0
    /\ UNCHANGED <<variant, maxProducts, netVars, label, retryCount, catalogPending,
                   emitted, screenshots, htmlBlobs, domCalled, previousProductCount,
                   sameCountIterations, totalScrolls, clickedButton, exitReason,
                   noIncreaseRun, unchangedRun>>
    /\ UNCHANGED recVars

\* routes.ts PRODUCT: the product name appears; one record is pushed.
ProductReady ==
    /\ label = "PRODUCT"
    /\ hpc = "load"
    /\ emitted' = <<ProductRecord>>
    /\ hpc' = "done"
    /\ outcome' = "ok"
    /\ UNCHANGED <<variant, maxProducts, netVars, ctlVars, label, retryCount,
                   catalogPending, productQueue, enqueued, screenshots, htmlBlobs,
                   domCalled>>
    /\ UNCHANGED recVars

\* routes.ts PRODUCT: waitForSelector times out: log.warning, return.
ProductTimeout ==
    /\ label = "PRODUCT"
    /\ hpc = "load"
    /\ hpc' = "done"
    /\ outcome' = "timeout"
    /\ UNCHANGED <<variant, maxProducts, netVars, ctlVars, label, retryCount,
                   catalogPending, productQueue, outVars>>
    /\ UNCHANGED recVars

\* The catalog handler's promise rejects (requestHandlerTimeoutSecs runs out
\* while the page is being driven): the crawler retries the request while
\* retryCount < maxRequestRetries.
CatalogFails ==
    /\ label = "CATALOG"
    /\ PageOpen
    /\ hpc' = "done"
    /\ outcome' = "failed"
    /\ IF retryCount < Min(maxRequestRetries(variant), MaxRetries)
       THEN /\ retryCount' = retryCount + 1
            /\ catalogPending' = TRUE
       ELSE UNCHANGED <<retryCount, catalogPending>>
    /\ CtlReset
    /\ UNCHANGED <<variant, maxProducts, netVars, label, productQueue, outVars>>
    /\ UNCHANGED recVars

Next ==
    \/ StartCatalog
    \/ StartProduct
    \/ \E r \in Responses : InterceptResponse(r)
    \/ CaptureLoaded
    \/ CatalogReady
    \/ CatalogTimeout
    \/ CtlRead
    \/ CtlScroll
    \/ CaptureExtract
    \/ DetailEnqueue
    \/ ProductReady
    \/ ProductTimeout
    \/ CatalogFails

Spec == Init /\ [][Next]_vars

\* part_001 alone: the capture variant under the scheduling of its event
\* loop.  Every iteration of the controller waits a bounded time (2 s after
\* the scroll, 3 s after a click), so a controller step that stays possible is
\* eventually taken.
InitCapture == Init /\ variant = "capture"

NextCapture ==
    \/ StartCatalog
    \/ \E r \in Responses : InterceptResponse(r)
    \/ CaptureLoaded
    \/ CtlRead
    \/ CtlScroll
    \/ CaptureExtract
    \/ CatalogFails

FairCapture ==
    /\ InitCapture
    /\ [][NextCapture]_vars
    /\ WF_vars(CtlRead)
    /\ WF_vars(CtlScroll)

\* parseApiProduct and the PRODUCT handler's extraction on their own: one
\* input is picked, then the code that builds the record runs on it.
InitRecords ==
    /\ variant = "detail"
    /\ maxProducts = 0
    /\ capturedProducts = <<>>
    /\ lastResponse = NoResponse
    /\ unhandledRejection = FALSE
    /\ label = "NONE"
    /\ hpc = "idle"
    /\ outcome = "none"
    /\ retryCount = 0
    /\ catalogPending = FALSE
    /\ productQueue = 0
    /\ CtlInit
    /\ OutInit
    /\ normalized = Null
    /\ pushedProduct = Null
    /\ \/ /\ fpc = "raw"
          /\ page = Undefined
          /\ \E code \in CodeInputs, price \in PriceInputs, image \in ImageInputs,
                listPrice \in ListPriceInputs, avail \in AvailInputs,
                variantObj \in VariantInputs, badges \in BadgeInputs,
                flags \in FlagInputs, themes \in ThemeInputs :
                apiProduct = MkApiProduct(code, price, image, listPrice, avail,
                                          variantObj, badges, flags, themes)
       \/ /\ fpc = "page"
          /\ apiProduct = Undefined
          /\ \E found \in BOOLEAN, saleM \in PriceMatches, origM \in PriceMatches,
                allPrices \in AllPricesInputs, discountM \in DiscountMatches,
                visible \in BOOLEAN, disabled \in BOOLEAN,
                content \in ContentInputs, lbl \in LabelInputs,
                badgeTexts \in BadgeTextInputs :
                page = MkPage(found, saleM, origM, allPrices, discountM, visible,
                              disabled, content, lbl, badgeTexts)

\* parseApiProduct(apiProduct, baseUrl)
NormalizeRaw ==
    /\ fpc = "raw"
    /\ normalized' = parseApiProduct(apiProduct, BaseUrl)
    /\ fpc' = "normalized"
    /\ UNCHANGED <<runVars, apiProduct, page, pushedProduct>>

\* The PRODUCT handler from the price extraction to Dataset.pushData(product).
PushProduct ==
    /\ fpc = "page"
    /\ pushedProduct' = ExtractProduct(page)
    /\ fpc' = "pushed"
    /\ UNCHANGED <<runVars, apiProduct, normalized, page>>

NextRecords == NormalizeRaw \/ PushProduct

SpecRecords == InitRecords /\ [][NextRecords]_vars

\* ------------------------------------------------------------------- claims

InLoop == hpc \in {"read", "scroll"}
IterationEnds == hpc = "scroll" /\ hpc' \in {"read", "after"}

UniqueKeys(m) == \A i, j \in 1..Len(m) : m[i].key = m[j].key => i = j

\* C1: the capture store is first-seen-wins: it never holds two entries under
\* one identifier, and no step changes or removes an entry it already holds
\* (a later capture with a present identifier leaves the stored value as is).
C1_FirstSeenWins ==
    [][/\ UniqueKeys(capturedProducts')
       /\ \A i \in 1..Len(capturedProducts) :
            /\ i <= Len(capturedProducts')
            /\ capturedProducts'[i] = capturedProducts[i]]_vars

\* RespLater, whose product has the identifier "10300", was handled, and the
\* store still holds the record captured first under "10300".
C1_Witness ==
    /\ lastResponse = RespLater
    /\ \E i \in 1..Len(capturedProducts) :
         /\ capturedProducts[i].key = Str("10300")
         /\ capturedProducts[i].value = CarFirst

\* C2 (as claimed): at the start of every Catalog visit, a retried one
\* included, the capture store is empty.
C2_StoreEmptyAtVisitStart ==
    [][(label' = "CATALOG" /\ hpc # "load" /\ hpc' = "load")
         => capturedProducts' = <<>>]_vars

\* C3 (as claimed): the controller always leaves its loop.
C3_ControllerTerminates == InLoop ~> ~InLoop

\* C4 (amended): an iteration without activation whose count equals the
\* previous count, and which is the N-th such iteration in a row, ends the
\* loop through the stall exit at once (no further reading, scroll or click);
\* in routes.ts the stall exit is taken in no other iteration.
C4_StallExitOnUnchanged ==
    [][/\ (/\ IterationEnds
           /\ ~clickedButton'
           /\ currentProductCount = previousProductCount
           /\ unchangedRun = maxSameCountIterations(variant) - 1)
          => (hpc' = "after" /\ exitReason' = "stalled")
       /\ (/\ IterationEnds
           /\ variant = "detail"
           /\ exitReason' = "stalled")
          => (/\ ~clickedButton'
              /\ currentProductCount = previousProductCount
              /\ unchangedRun = maxSameCountIterations(variant) - 1)]_vars

\* The loop was left through the stall exit by an iteration that activated
\* no control.
C4_Witness == hpc = "after" /\ exitReason = "stalled" /\ ~clickedButton

\* C4 (as claimed): the N-th consecutive iteration without activation in
\* which the count failed to increase ends the loop through the stall exit.
C4_StallExitOnNoIncrease ==
    [][(/\ IterationEnds
        /\ ~clickedButton'
        /\ currentProductCount <= previousProductCount
        /\ noIncreaseRun = maxSameCountIterations(variant) - 1)
         => (hpc' = "after" /\ exitReason' = "stalled")]_vars

\* C5 (as claimed): an iteration that activates a control leaves the stall
\* counter at 0, and the counter grows only in an iteration with neither an
\* increase nor an activation.
C5_ActivationResetsStall ==
    [][(hpc = "scroll" /\ hpc' = "read")
         => /\ clickedButton' => sameCountIterations' = 0
            /\ sameCountIterations' > sameCountIterations
                 => (~clickedButton' /\ currentProductCount <= previousProductCount)]_vars

\* C6: the count an iteration observes is the larger of the DOM count and the
\* store's size; with maxProducts > 0 and that count >= maxProducts the loop is
\* left in this pass, before any scroll or click; the target exit is taken in
\* no other case, never with maxProducts = 0.
C6_TargetExit ==
    [][(hpc = "read" /\ hpc' \in {"scroll", "after"})
         => /\ currentProductCount' = Max(domProductCount', Len(capturedProducts))
            /\ (maxProducts > 0 /\ currentProductCount' >= maxProducts)
                 => (hpc' = "after" /\ exitReason' = "target" /\ ~clickedButton')
            /\ exitReason' = "target"
                 => (maxProducts > 0 /\ currentProductCount' >= maxProducts)
            /\ maxProducts = 0 => hpc' = "scroll"]_vars

\* The target exit was taken on the store's size, with fewer items in the DOM.
C6_Witness ==
    /\ hpc = "after"
    /\ exitReason = "target"
    /\ domProductCount < currentProductCount

Normalized(m) == [i \in 1..Len(m) |-> parseApiProduct(m[i].value, BaseUrl)]
NotNull(x) == ~x.isNull
Records(m) == SelectSeq(Normalized(m), NotNull)
FirstN(seq, n) == SubSeq(seq, 1, Min(n, Len(seq)))
CaptureVisitDone == variant = "capture" /\ hpc = "done" /\ outcome = "ok"

\* C7 (amended): the DOM extractor runs exactly when no store entry
\* normalizes to a record (the store is empty or every entry is rejected by
\* parseApiProduct); otherwise the emitted records are the normalized store
\* entries in insertion order, cut after the first maxProducts when
\* maxProducts > 0.
C7_FallbackWhenNothingNormalizes ==
    CaptureVisitDone =>
        LET records == IF maxProducts > 0
                       THEN FirstN(Records(capturedProducts), maxProducts)
                       ELSE Records(capturedProducts)
        IN  /\ domCalled <=> records = <<>>
            /\ ~domCalled => emitted = records

\* The DOM extractor ran although the store was not empty.
C7_Witness == CaptureVisitDone /\ domCalled /\ capturedProducts # <<>>

\* C7 (as claimed): the DOM extractor runs only with an empty store; with a
\* non-empty store the emitted records are exactly the normalized entries.
C7_FallbackOnlyWhenStoreEmpty ==
    CaptureVisitDone =>
        /\ domCalled => capturedProducts = <<>>
        /\ capturedProducts # <<>>
             => (~domCalled /\ emitted = Records(capturedProducts))

\* What a catalog visit yields: records (part_001) or follow-ups (routes.ts).
Yield == IF variant = "capture" THEN Len(emitted) ELSE enqueued

\* C8 (as claimed): a Catalog visit that yields nothing stores exactly one
\* screenshot and one markup blob and emits nothing; one that yields
\* something stores no diagnostic artifact.
C8_ZeroYieldDiagnostics ==
    (label = "CATALOG" /\ hpc = "done" /\ outcome \in {"ok", "timeout"})
        => IF Yield = 0
           THEN screenshots = 1 /\ htmlBlobs = 1 /\ emitted = <<>>
           ELSE screenshots = 0 /\ htmlBlobs = 0

\* C9 (as claimed): a visit abandoned on the page-ready timeout has taken a
\* diagnostic capture, and has enqueued and emitted nothing.
C9_TimeoutTakesCapture ==
    (hpc = "done" /\ outcome = "timeout")
        => /\ screenshots + htmlBlobs >= 1
           /\ emitted = <<>>
           /\ enqueued = 0

BadBody(r) == r \in Responses /\ UrlMatches(r) /\ (~IsJson(r) \/ ~r.wellFormed)
GoodBody(r) == r \in Responses /\ UrlMatches(r) /\ IsJson(r) /\ r.wellFormed

\* C10: handling a response whose body is not JSON or is malformed JSON
\* leaves the store and the handler as they were and lets no error escape;
\* a well-formed response handled after such a one is captured as usual.
C10_BadResponsesIgnored ==
    [][\A r \in Responses :
         InterceptResponse(r) =>
           /\ BadBody(r) =>
                /\ capturedProducts' = capturedProducts
                /\ ~unhandledRejection'
                /\ hpc' = hpc
                /\ outcome' = outcome
           /\ (BadBody(lastResponse) /\ GoodBody(r)) =>
                \A i \in 1..Len(processApiResponse(r.data)) :
                  LET key == ProductKey(processApiResponse(r.data)[i])
                  IN  Truthy(key) => MapHas(capturedProducts', key)]_vars

\* A malformed response was handled last: the products captured before it
\* are still in the store and the controller is still running.
C10_Witness ==
    /\ lastResponse = RespBad
    /\ capturedProducts # <<>>
    /\ ~unhandledRejection
    /\ InLoop

Normalized1 == fpc = "normalized" /\ ~normalized.isNull
Pushed == fpc = "pushed"

\* The current price of a pushed record is strictly lower than its reference
\* price.
LowerCurrentPrice(rec) ==
    /\ rec.salePrice # JsNull
    /\ rec.retailPrice # JsNull
    /\ ParsePrice(rec.salePrice.v) < ParsePrice(rec.retailPrice.v)

\* A discount percentage (above 0) is recorded.
DiscountRecorded(rec) ==
    /\ rec.discountPercentage # JsNull
    /\ rec.discountPercentage.n > 0

\* C11 (as claimed): in every record the PRODUCT handler pushes, isOnSale is
\* true if and only if a discount percentage is recorded or a current price
\* strictly lower than the reference price was identified.
C11_OnSaleIffDiscountOrLowerPrice ==
    Pushed =>
        (pushedProduct.isOnSale
            <=> (DiscountRecorded(pushedProduct) \/ LowerCurrentPrice(pushedProduct)))

\* The price object carries a cent amount and no pre-formatted string.
CentPriceOnly(p) ==
    /\ Get(p.price, "formattedAmount") = Undefined
    /\ Get(p.price, "formattedValue") = Undefined
    /\ Get(p.price, "centAmount").t = "number"

\* cents/100 with exactly two decimals, for the cent amounts tried.
TwoDecimals(cents) ==
    CASE cents = 0 -> "$0.00"
      [] cents = 5 -> "$0.05"
      [] cents = 100 -> "$1.00"
      [] cents = 24999 -> "$249.99"

\* C12 (as claimed): for a raw product with a valid identifier and a
\* cent-integer price (0 included), the normalized price is '$' followed by
\* cents/100 with exactly two decimals.
C12_CentPriceFormatted ==
    (Normalized1 /\ CentPriceOnly(apiProduct))
        => normalized.price = Str(TwoDecimals(Get(apiProduct.price, "centAmount").n))

\* The raw input of the scenario: productCode "10300", price of 24999 cents,
\* list price "$329.99".
SaleScenario(p) ==
    /\ p.productCode = Str("10300")
    /\ p.price = PriceObj(Undefined, Undefined, Cents(24999))
    /\ p.listPrice = PriceObj(Str("$329.99"), Undefined, Undefined)

\* C13 (as claimed): the scenario input is normalized to a record with retail
\* price "$329.99", sale price "$249.99", the sale flag set and the discount
\* percentage 24.
C13_SaleScenarioNormalized ==
    (fpc = "normalized" /\ SaleScenario(apiProduct))
        => /\ ~normalized.isNull
           /\ normalized.originalPrice = Str("$329.99")
           /\ normalized.price = Str("$249.99")
           /\ "isOnSale" \in DOMAIN normalized
           /\ normalized.isOnSale = TRUE
           /\ "discountPercentage" \in DOMAIN normalized
           /\ normalized.discountPercentage = Cents(24)

\* The raw product carries canAddToBag = false, on its availability object
\* or on its variant attributes.
CannotAddToBag(p) ==
    \/ Get(p.availability, "canAddToBag") = Bool(FALSE)
    \/ Get(Get(p.variant, "attributes"), "canAddToBag") = Bool(FALSE)

\* C14 (as claimed): a raw product with an explicit cannot-add-to-bag flag is
\* normalized to 'Out of Stock', whatever coming-soon channel or launch date
\* it also carries, and also when the flag sits on the variant attributes.
C14_CannotAddMeansOutOfStock ==
    (Normalized1 /\ CannotAddToBag(apiProduct))
        => normalized.availability = "Out of Stock"

\* The raw product carries no can-add-to-bag flag.
NoBagFlag(p) ==
    /\ Get(p.availability, "canAddToBag") = Undefined
    /\ Get(Get(p.variant, "attributes"), "canAddToBag") = Undefined

\* The raw product carries no launch date and no coming-soon channel.
NoComingSoonMarker(p) ==
    /\ ~Truthy(Get(p.availability, "launchDate"))
    /\ Get(p.availability, "deliveryChannel") # Str("coming_soon")
    /\ Get(Get(p.variant, "attributes"), "deliveryChannel") # Str("coming_soon")

\* C15: a raw product without a can-add-to-bag flag and without a launch-date
\* or coming-soon marker, on the availability object and on the variant
\* attributes alike, is normalized with availability 'Available'.
C15_DefaultAvailable ==
    (Normalized1 /\ NoBagFlag(apiProduct) /\ NoComingSoonMarker(apiProduct))
        => normalized.availability = "Available"

\* Such a product, with an availability object and variant attributes that
\* carry neither flag nor marker, was normalized to 'Available'.
C15_Witness ==
    /\ Normalized1
    /\ apiProduct.availability = AvailObj(Undefined, Undefined, Undefined)
    /\ Truthy(Get(apiProduct.variant, "attributes"))
    /\ NoBagFlag(apiProduct)
    /\ NoComingSoonMarker(apiProduct)
    /\ normalized.availability = "Available"

NoDuplicates(tags) == \A i, j \in 1..Len(tags) : tags[i] = tags[j] => i = j

\* C16: the tags of a record hold no two equal entries (compared
\* case-sensitively), whatever featured flags, badge texts and flag texts
\* repeat in the input and whether or not the 'Sale' tag was appended.
C16_TagsDistinct ==
    /\ Normalized1 => NoDuplicates(normalized.tags)
    /\ Pushed => NoDuplicates(pushedProduct.tags)

\* A raw product whose featured flags, badge texts and flag texts repeat was
\* normalized: fewer tags are returned than were pushed, 'Sale' and 'sale'
\* both among them.
C16_Witness ==
    /\ Normalized1
    /\ Len(normalized.tags) < Len(PushedTags(apiProduct))
    /\ normalized.tags = <<"New", "Exclusive", "Sale", "sale">>

NormalizedFields ==
    {"setNumber", "pieces", "minifigures", "rating", "reviewCount", "price",
     "originalPrice", "imageUrl"}
PushedFields ==
    {"setNumber", "pieces", "minifigures", "ageRange", "rating", "reviewCount",
     "retailPrice", "salePrice", "discountPercentage", "imageUrl"}

\* C17 (as claimed): in every record, no field other than name and theme is
\* the empty string: an image URL or identifier that was not found is null.
C17_UnresolvedIsNull ==
    /\ Normalized1 => \A f \in NormalizedFields : normalized[f] # Str("")
    /\ Pushed => \A f \in PushedFields : pushedProduct[f] # Str("")

RECURSIVE InsideMatched(_, _)
\* The product fields of every mapping of a parsed body that lies inside a
\* mapping matched as a product (under: an enclosing mapping matched).
InsideMatched(obj, under) ==
    IF obj.k = "null" THEN {}
    ELSE IF obj.k = "array"
    THEN UNION {InsideMatched(obj.items[i], under) : i \in 1..Len(obj.items)}
    ELSE (IF under THEN {obj.fields} ELSE {})
         \cup UNION {InsideMatched(obj.items[i], under \/ LooksLikeProduct(obj.fields)) :
                       i \in 1..Len(obj.items)}

\* C18: whenever handling a response changes the capture store, nothing that
\* lies inside a mapping matched as a product was returned by
\* processApiResponse for that response, and no entry the step adds to the
\* store is such a substructure.
C18_NoDescentIntoMatch ==
    [][capturedProducts' # capturedProducts =>
         LET data == lastResponse'.data
         IN  /\ \A i \in 1..Len(processApiResponse(data)) :
                  processApiResponse(data)[i] \notin InsideMatched(data, FALSE)
             /\ \A i \in 1..Len(capturedProducts') :
                  i > Len(capturedProducts)
                    => capturedProducts'[i].value \notin InsideMatched(data, FALSE)]_vars

\* The response that carries Turret inside Castle was handled: Castle is in
\* the store, Turret is not.
C18_Witness ==
    /\ lastResponse = RespLater
    /\ Turret \in InsideMatched(RespLater.data, FALSE)
    /\ MapHas(capturedProducts, Str("10305"))
    /\ ~MapHas(capturedProducts, Str("40567"))

\* C19: with maxProducts > 0, a Catalog visit emits at most maxProducts
\* records and enqueues at most maxProducts PRODUCT requests.
C19_AtMostMaxProducts ==
    (label = "CATALOG" /\ maxProducts > 0)
        => /\ Len(emitted) <= maxProducts
           /\ enqueued <= maxProducts

\* A visit with maxProducts = 1 emitted one record from a store in which two
\* entries normalize.
C19_Witness ==
    /\ label = "CATALOG"
    /\ hpc = "done"
    /\ maxProducts = 1
    /\ ~domCalled
    /\ Len(emitted) = 1
    /\ Len(Records(capturedProducts)) >= 2

Availabilities == {"Available", "Out of Stock", "Coming Soon", "Backorder"}

\* C20: the availability of a record the PRODUCT handler pushes is one of
\* Available, Out of Stock, Coming Soon and Backorder, never 'Temporarily Out
\* of Stock', whatever the add-to-bag state, the page text and the label text.
C20_NeverTemporarilyOutOfStock ==
    Pushed => pushedProduct.availability \in Availabilities

\* A page without a usable add-to-bag button whose text says 'temporarily out
\* of stock' (and whose label is empty) was recorded as 'Out of Stock'.
C20_Witness ==
    /\ Pushed
    /\ ~page.isAddToBagVisible
    /\ Includes(page.pageContentLower, <<"temporarily", "out", "of", "stock">>)
    /\ page.availLower = <<>>
    /\ pushedProduct.availability = "Out of Stock"

====
